---- MODULE Spec2Model ----
(***************************************************************************)
(* State-machine model of the span-editing engine of the NER entity        *)
(* annotator (frontend/src/NerEntityAnnotator.tsx).                        *)
(*                                                                         *)
(* Offsets are the source's 0-based character offsets; a text is a         *)
(* sequence of one-character strings, so the source's text[i] is           *)
(* text[i + 1] here (see charAt).                                          *)
(***************************************************************************)
EXTENDS Integers, Sequences, FiniteSets, TLC

\* ---------------------------------------------------------------- bounds
\* The size of a run: the length of the text, the number of seed spans the
\* host supplies and the number of user events handled add up to at most
\* MaxSize.
MaxSize == 5
\* The longest text of the runs that repeat one boundary adjustment.
MaxTextLen == 6
\* The number of user events of an editing session on a short text.
MaxEvents == 5

\* ------------------------------------------------------ program constants
\* let globalSpanCounter = 1
InitialCounter == 1
\* allowedLabels.length ? allowedLabels[0] : "MISC"
FallbackLabel == "MISC"

\* ------------------------------------------------------------ input sets
\* Characters of a text: one non-whitespace and one whitespace character.
Chars == {"a", " "}
\* Characters /\s/ matches, among Chars.
Whitespace == {" "}
\* Label lists the host may pass as args["labels"].
LabelLists == {<< >>, <<"A">>, <<"A", "B">>}
\* Labels a seed span may carry; "X" is in no label list.
SeedLabels == {"A", "B", "X"}
Directions == {"left", "right"}

Texts == UNION {[1..n -> Chars] : n \in 0..MaxSize}

\* Host spans obeying the Span invariant 0 <= start < end <= length(text).
SeedSpans(t) ==
    {s \in [start_token : 0..Len(t), end_token : 0..Len(t), label : SeedLabels] :
        s.start_token < s.end_token}

SeedLists(t) == UNION {[1..n -> SeedSpans(t)] : n \in 0..(MaxSize - Len(t))}

\* The text of the spec's worked examples, "The quick fox".
TheQuickFox ==
    <<"T", "h", "e", " ", "q", "u", "i", "c", "k", " ", "f", "o", "x">>

\* Texts of the editing sessions: one or two characters.
EditTexts == UNION {[1..n -> Chars] : n \in 1..2}

\* Texts of the runs that repeat one boundary adjustment.
AdjustTexts == UNION {[1..n -> Chars] : n \in 0..MaxTextLen} \cup {TheQuickFox}

VARIABLES
    text,               \* args["text"]
    allowedLabels,      \* args["labels"]
    rawSpans,           \* args["spans"]
    componentSpans,     \* the useState store of EditableSpan
    globalSpanCounter,  \* module-level id counter
    emitted,            \* value last passed to Streamlit.setComponentValue
    emitCount,          \* number of Streamlit.setComponentValue calls so far
    lastOp              \* the handler that ran last (see Op)

vars == <<text, allowedLabels, rawSpans, componentSpans, globalSpanCounter,
          emitted, emitCount, lastOp>>

\* ------------------------------------------------------------- helpers
Min(a, b) == IF a <= b THEN a ELSE b
Max(a, b) == IF a >= b THEN a ELSE b

\* Array.prototype.includes
includes(list, x) == \E i \in 1..Len(list) : list[i] = x

\* text[i] of the source: undefined outside [0, length).
charAt(i) == IF i >= 0 /\ i < Len(text) THEN text[i + 1] ELSE "undefined"

\* /\s/.test(ch); /\s/.test(undefined) tests the string "undefined": false.
isWhitespace(ch) == ch \in Whitespace

\* ------------------------------------------------- convert incoming spans
toEditableSpansNoFilter(spans, counter) ==
    [i \in 1..Len(spans) |->
        [start_token |-> spans[i].start_token,
         end_token   |-> spans[i].end_token,
         label       |-> spans[i].label,
         span_id     |-> counter + i - 1,
         editing     |-> FALSE,
         tempLabel   |-> spans[i].label]]

\* spans.filter(s => allowedLabels.includes(s.label)).map(s => ({...s,
\*   span_id: globalSpanCounter++, editing: false, tempLabel: s.label}))
\* with globalSpanCounter = counter before the call.
toEditableSpans(spans, counter) ==
    LET kept == SelectSeq(spans, LAMBDA s : includes(allowedLabels, s.label))
    IN  [i \in 1..Len(kept) |->
            [start_token |-> kept[i].start_token,
             end_token   |-> kept[i].end_token,
             label       |-> kept[i].label,
             span_id     |-> counter + i - 1,
             editing     |-> FALSE,
             tempLabel   |-> kept[i].label]]

\* ----------------------------------------------- sync back to Streamlit
plainSpansPending(spans) ==
    [i \in 1..Len(spans) |->
        [start_token |-> spans[i].start_token,
         end_token   |-> spans[i].end_token,
         label       |-> spans[i].tempLabel]]

\* componentSpans.map(({span_id, editing, tempLabel, ...rest}) => rest)
plainSpans(spans) ==
    [i \in 1..Len(spans) |->
        [start_token |-> spans[i].start_token,
         end_token   |-> spans[i].end_token,
         label       |-> spans[i].label]]

setComponentSpansCoalesce(next) ==
    /\ componentSpans' = next
    /\ IF next = componentSpans
       THEN UNCHANGED <<emitted, emitCount>>
       ELSE /\ emitted' = plainSpans(next)
            /\ emitCount' = emitCount + 1

\* setComponentSpans(next) followed by the render it schedules and the
\* useEffect on [componentSpans]: every updater of the source returns a fresh
\* array, so the effect runs once per call.
setComponentSpans(next) ==
    /\ componentSpans' = next
    /\ emitted' = plainSpans(next)
    /\ emitCount' = emitCount + 1

\* ------------------------------------------ word-based boundary adjustments
moveStartLeftOffByOne(s) ==
    LET RECURSIVE overSpace(_), overWord(_)
        overSpace(i) == IF i > 0 /\ isWhitespace(charAt(i))
                        THEN overSpace(i - 1) ELSE i
        overWord(i) == IF i > 0 /\ ~isWhitespace(charAt(i))
                       THEN overWord(i - 1) ELSE i
    IN  IF s.start_token <= 0 THEN s.start_token
        ELSE Max(0, overWord(overSpace(s.start_token - 1)))

moveStartLeftNoFloor(s) ==
    LET RECURSIVE overSpace(_), overWord(_)
        overSpace(i) == IF i > 0 /\ isWhitespace(charAt(i))
                        THEN overSpace(i - 1) ELSE i
        overWord(i) == IF i > 0 /\ ~isWhitespace(charAt(i - 1))
                       THEN overWord(i - 1) ELSE i
    IN  overWord(overSpace(s.start_token - 1))

\* Move the start boundary left by one word.
moveStartLeft(s) ==
    LET RECURSIVE overSpace(_), overWord(_)
        overSpace(i) == IF i > 0 /\ isWhitespace(charAt(i))
                        THEN overSpace(i - 1) ELSE i
        overWord(i) == IF i > 0 /\ ~isWhitespace(charAt(i - 1))
                       THEN overWord(i - 1) ELSE i
    IN  IF s.start_token <= 0 THEN s.start_token
        ELSE Max(0, overWord(overSpace(s.start_token - 1)))

moveStartRightRefuse(s) ==
    LET len == Len(text)
        RECURSIVE overWord(_), overSpace(_)
        overWord(i) == IF i < len /\ ~isWhitespace(charAt(i))
                       THEN overWord(i + 1) ELSE i
        overSpace(i) == IF i < len /\ isWhitespace(charAt(i))
                        THEN overSpace(i + 1) ELSE i
        i1 == overSpace(overWord(s.start_token))
    IN  IF s.start_token >= Len(text) - 1 THEN s.start_token
        ELSE IF i1 >= s.end_token THEN s.start_token ELSE i1

moveStartRightNoClamp(s) ==
    LET len == Len(text)
        RECURSIVE overWord(_), overSpace(_)
        overWord(i) == IF i < len /\ ~isWhitespace(charAt(i))
                       THEN overWord(i + 1) ELSE i
        overSpace(i) == IF i < len /\ isWhitespace(charAt(i))
                        THEN overSpace(i + 1) ELSE i
    IN  IF s.start_token >= Len(text) - 1 THEN s.start_token
        ELSE overSpace(overWord(s.start_token))

\* Move the start boundary right by one word.
moveStartRight(s) ==
    LET len == Len(text)
        RECURSIVE overWord(_), overSpace(_)
        overWord(i) == IF i < len /\ ~isWhitespace(charAt(i))
                       THEN overWord(i + 1) ELSE i
        overSpace(i) == IF i < len /\ isWhitespace(charAt(i))
                        THEN overSpace(i + 1) ELSE i
        i1 == overSpace(overWord(s.start_token))
    IN  IF s.start_token >= Len(text) - 1 THEN s.start_token
        ELSE IF i1 >= s.end_token
             THEN (IF s.end_token - 1 < 0 THEN 0 ELSE s.end_token - 1)
             ELSE i1

moveEndLeftNoClamp(s) ==
    LET RECURSIVE overSpace(_), overWord(_)
        overSpace(i) == IF i > s.start_token /\ isWhitespace(charAt(i))
                        THEN overSpace(i - 1) ELSE i
        overWord(i) == IF i > s.start_token /\ ~isWhitespace(charAt(i - 1))
                       THEN overWord(i - 1) ELSE i
    IN  IF s.end_token <= s.start_token + 1 THEN s.end_token
        ELSE overWord(overSpace(s.end_token - 1))

\* Move the end boundary left by one word.
moveEndLeft(s) ==
    LET RECURSIVE overSpace(_), overWord(_)
        overSpace(i) == IF i > s.start_token /\ isWhitespace(charAt(i))
                        THEN overSpace(i - 1) ELSE i
        overWord(i) == IF i > s.start_token /\ ~isWhitespace(charAt(i - 1))
                       THEN overWord(i - 1) ELSE i
        i1 == overWord(overSpace(s.end_token - 1))
    IN  IF s.end_token <= s.start_token + 1 THEN s.end_token
        ELSE IF i1 <= s.start_token THEN s.start_token + 1 ELSE i1

moveEndRightWordFirst(s) ==
    LET len == Len(text)
        RECURSIVE overSpace(_), overWord(_)
        overSpace(i) == IF i < len /\ isWhitespace(charAt(i))
                        THEN overSpace(i + 1) ELSE i
        overWord(i) == IF i < len /\ ~isWhitespace(charAt(i))
                       THEN overWord(i + 1) ELSE i
        i1 == overSpace(overWord(s.end_token))
        i2 == IF i1 <= s.start_token THEN s.start_token + 1 ELSE i1
    IN  IF s.end_token >= Len(text) THEN s.end_token
        ELSE IF i2 > len THEN len ELSE i2

\* Move the end boundary right by one word.
moveEndRight(s) ==
    LET len == Len(text)
        RECURSIVE overSpace(_), overWord(_)
        overSpace(i) == IF i < len /\ isWhitespace(charAt(i))
                        THEN overSpace(i + 1) ELSE i
        overWord(i) == IF i < len /\ ~isWhitespace(charAt(i))
                       THEN overWord(i + 1) ELSE i
        i1 == overWord(overSpace(s.end_token))
        i2 == IF i1 <= s.start_token THEN s.start_token + 1 ELSE i1
    IN  IF s.end_token >= Len(text) THEN s.end_token
        ELSE IF i2 > len THEN len ELSE i2

\* ------------------------------------------------------------ span updates
adjustedStartNoClamp(s, dir) ==
    [s EXCEPT !.start_token =
        IF dir = "left" THEN moveStartLeft(s) ELSE moveStartRightNoClamp(s)]

\* The span adjustStart returns for the span it addresses.
adjustedStart(s, dir) ==
    LET newStart == IF dir = "left" THEN moveStartLeft(s) ELSE moveStartRight(s)
        clamped == IF newStart >= s.end_token
                   THEN (IF s.end_token - 1 < 0 THEN 0 ELSE s.end_token - 1)
                   ELSE newStart
    IN  [s EXCEPT !.start_token = clamped]

adjustedEndSwapped(s, dir) ==
    LET newEnd == IF dir = "left" THEN moveEndRight(s) ELSE moveEndLeft(s)
        clamped == IF newEnd <= s.start_token THEN s.start_token + 1 ELSE newEnd
    IN  [s EXCEPT !.end_token = clamped]

adjustedEndCopyPaste(s, dir) ==
    LET newEnd == IF dir = "left" THEN moveEndLeft(s) ELSE moveEndRight(s)
        clamped == IF newEnd <= s.start_token THEN s.start_token + 1 ELSE newEnd
    IN  [s EXCEPT !.start_token = clamped]

\* The span adjustEnd returns for the span it addresses.
adjustedEnd(s, dir) ==
    LET newEnd == IF dir = "left" THEN moveEndLeft(s) ELSE moveEndRight(s)
        clamped == IF newEnd <= s.start_token THEN s.start_token + 1 ELSE newEnd
    IN  [s EXCEPT !.end_token = clamped]

toggledCommits(s) ==
    [s EXCEPT !.editing = ~s.editing,
              !.label = IF s.editing THEN s.tempLabel ELSE s.label]

toggledKeepsPending(s) == [s EXCEPT !.editing = ~s.editing]

\* The span handleEditToggle returns for the span it addresses.
toggled(s) ==
    [s EXCEPT !.editing = ~s.editing,
              !.tempLabel = IF s.editing THEN s.label ELSE s.tempLabel]

\* The span handleApproveEdit returns for the span it addresses
\* (tempLabel is always set, so tempLabel ?? label is tempLabel).
approved(s) == [s EXCEPT !.label = s.tempLabel, !.editing = FALSE]

relabelledCommit(s, newLabel) ==
    [s EXCEPT !.tempLabel = newLabel, !.label = newLabel]

\* The span handleLabelChange returns for the span it addresses.
relabelled(s, newLabel) == [s EXCEPT !.tempLabel = newLabel]

removedSplice(prev, span_id) ==
    LET hits == {i \in 1..Len(prev) : prev[i].span_id = span_id}
        at == IF hits = {} THEN Len(prev) ELSE CHOOSE i \in hits : TRUE
    IN  [i \in 1..(Len(prev) - (IF prev = << >> THEN 0 ELSE 1)) |->
            IF i < at THEN prev[i] ELSE prev[i + 1]]

\* prev.filter(s => s.span_id !== span_id)
removed(prev, span_id) == SelectSeq(prev, LAMBDA s : s.span_id # span_id)

\* The updater of adjustStart: prev.map(s => s.span_id !== span_id ? s : ...)
adjustStartUpdater(prev, span_id, dir) ==
    [i \in 1..Len(prev) |->
        IF prev[i].span_id # span_id THEN prev[i] ELSE adjustedStart(prev[i], dir)]

\* The updater of adjustEnd.
adjustEndUpdater(prev, span_id, dir) ==
    [i \in 1..Len(prev) |->
        IF prev[i].span_id # span_id THEN prev[i] ELSE adjustedEnd(prev[i], dir)]

\* The updater of handleEditToggle.
editToggleUpdater(prev, span_id) ==
    [i \in 1..Len(prev) |->
        IF prev[i].span_id = span_id THEN toggled(prev[i]) ELSE prev[i]]

\* The updater of handleApproveEdit.
approveEditUpdater(prev, span_id) ==
    [i \in 1..Len(prev) |->
        IF prev[i].span_id = span_id THEN approved(prev[i]) ELSE prev[i]]

\* The updater of handleLabelChange.
labelChangeUpdater(prev, span_id, newLabel) ==
    [i \in 1..Len(prev) |->
        IF prev[i].span_id = span_id THEN relabelled(prev[i], newLabel) ELSE prev[i]]

\* --------------------------------------------------------- create a span
defaultLblAlwaysFallback == FallbackLabel

\* allowedLabels.length ? allowedLabels[0] : "MISC"
defaultLbl == IF Len(allowedLabels) # 0 THEN allowedLabels[1] ELSE FallbackLabel

spanEndInclusive(startIdx, endIdx) == Max(startIdx, endIdx)

\* Math.max(startIdx, endIdx) + 1
spanEndOf(startIdx, endIdx) == Max(startIdx, endIdx) + 1

\* Math.min(startIdx, endIdx)
spanStartOf(startIdx, endIdx) == Min(startIdx, endIdx)

acceptsNoBoundsCheck(startIdx, endIdx) == ~(startIdx < 0 \/ endIdx < 0)

\* The guards of handleMouseUp on the two data-ch-idx values (-1 when the
\* attribute is missing).
accepts(startIdx, endIdx) ==
    /\ ~(startIdx < 0 \/ endIdx < 0)
    /\ ~(spanEndOf(startIdx, endIdx) <= spanStartOf(startIdx, endIdx)
         \/ spanEndOf(startIdx, endIdx) > Len(text))

newSpanReusedId(startIdx, endIdx) ==
    [span_id     |-> Len(componentSpans) + 1,
     start_token |-> spanStartOf(startIdx, endIdx),
     end_token   |-> spanEndOf(startIdx, endIdx),
     label       |-> defaultLbl,
     editing     |-> TRUE,
     tempLabel   |-> defaultLbl]

newSpan(startIdx, endIdx) ==
    [span_id     |-> globalSpanCounter,
     start_token |-> spanStartOf(startIdx, endIdx),
     end_token   |-> spanEndOf(startIdx, endIdx),
     label       |-> defaultLbl,
     editing     |-> TRUE,
     tempLabel   |-> defaultLbl]

\* ------------------------------------------------ building the display
\* String.prototype.slice(from, to) on the text, as a sequence of characters.
slice(from, to) ==
    LET len == Len(text)
        lo == IF from < 0 THEN Max(len + from, 0) ELSE Min(from, len)
        hi == IF to < 0 THEN Max(len + to, 0) ELSE Min(to, len)
    IN  IF lo >= hi THEN << >> ELSE [i \in 1..(hi - lo) |-> text[lo + i]]

sortedSpansUnsorted(spans) == spans

\* [...componentSpans].sort((a, b) => a.start_token - b.start_token):
\* a stable sort, ascending by start_token.
sortedSpans(spans) ==
    LET RECURSIVE insert(_, _), sort(_)
        insert(sorted, s) ==
            IF sorted = << >> THEN <<s>>
            ELSE IF sorted[Len(sorted)].start_token <= s.start_token
                 THEN Append(sorted, s)
                 ELSE Append(insert(SubSeq(sorted, 1, Len(sorted) - 1), s),
                             sorted[Len(sorted)])
        sort(n) == IF n = 0 THEN << >> ELSE insert(sort(n - 1), spans[n])
    IN  sort(Len(spans))

\* renderPlainTextSegment(start, end): one data-ch-idx node per character.
renderPlainTextSegment(start, end) ==
    [kind  |-> "plain",
     start |-> start,
     end   |-> end,
     key   |-> <<start, end>>,
     chars |-> [i \in 1..(end - start) |-> charAt(start + i - 1)],
     chIdx |-> [i \in 1..(end - start) |-> start + i - 1]]

\* renderEntitySegment(spanObj): the mark showing text.slice(start, end).
renderEntitySegment(spanObj) ==
    [kind  |-> "entity",
     start |-> spanObj.start_token,
     end   |-> spanObj.end_token,
     key   |-> spanObj.span_id,
     chars |-> slice(spanObj.start_token, spanObj.end_token),
     chIdx |-> << >>]

\* buildDisplayContent() over the sorted spans.
buildDisplayContent(spans) ==
    LET sorted == sortedSpans(spans)
        RECURSIVE walk(_, _, _)
        walk(k, offset, result) ==
            IF k > Len(sorted)
            THEN IF offset < Len(text)
                 THEN Append(result, renderPlainTextSegment(offset, Len(text)))
                 ELSE result
            ELSE LET ent == sorted[k]
                     r1 == IF offset < ent.start_token
                           THEN Append(result,
                                       renderPlainTextSegment(offset, ent.start_token))
                           ELSE result
                 IN  walk(k + 1, ent.end_token, Append(r1, renderEntitySegment(ent)))
    IN  walk(1, 0, << >>)

\* ------------------------------------------------------------------ state
\* Ids the closures of the rendered controls pass: renderEntitySegment is
\* called for the spans of the store, so these are their ids.
SpanIds == {componentSpans[i].span_id : i \in 1..Len(componentSpans)}

\* The span with this id is in edit mode: its mark has class "editing", it
\* shows the select and the approve button instead of the edit and remove
\* buttons, and the style sheet shows its arrows.
isEditing(span_id) ==
    \E i \in 1..Len(componentSpans) :
        componentSpans[i].span_id = span_id /\ componentSpans[i].editing

\* The n-th character of the k-th segment of the display is white space
\* the layout gives no width: no style of the component sets white-space, so
\* a blank that follows a blank of the same plain segment collapses, and so
\* do the blanks that begin the first segment of the line or end its last
\* one (a mark is an inline-block and shields the blanks next to it; the
\* text is taken to fit one line).
collapsedBlank(segs, k, n) ==
    LET chars == segs[k].chars
    IN  /\ isWhitespace(chars[n])
        /\ \/ n > 1 /\ isWhitespace(chars[n - 1])
           \/ k = 1 /\ \A m \in 1..n : isWhitespace(chars[m])
           \/ k = Len(segs) /\ \A m \in n..Len(chars) : isWhitespace(chars[m])

\* data-ch-idx values a selection endpoint may carry: the index of a
\* character rendered as plain text with some width, or -1 for an element
\* without the attribute (a mark and what it holds).
ChIdx ==
    LET segs == buildDisplayContent(componentSpans)
    IN  {-1} \cup UNION {{segs[k].chIdx[n] :
                            n \in {m \in 1..Len(segs[k].chIdx) :
                                      ~collapsedBlank(segs, k, m)}} :
                            k \in 1..Len(segs)}

\* Whether some span of the store has this id.
known(span_id) == \E i \in 1..Len(componentSpans) : componentSpans[i].span_id = span_id

\* What lastOp records of a handler call: its name, whether the id it was
\* given is in the store (the rendered controls pass no other), and the
\* direction of an adjust.
Op(name, span_id, arg) == [op |-> name, known |-> known(span_id), arg |-> arg]

Init ==
    /\ text \in Texts
    /\ allowedLabels \in LabelLists
    /\ rawSpans \in SeedLists(text)
    /\ componentSpans = toEditableSpans(rawSpans, InitialCounter)
    /\ globalSpanCounter = InitialCounter + Len(componentSpans)
    /\ emitted = plainSpans(componentSpans)
    /\ emitCount = 1
    /\ lastOp = [op |-> "mount", known |-> FALSE, arg |-> ""]

Props == <<text, allowedLabels, rawSpans>>

\* User events handled so far: every one of them emits once, after the
\* emission of the mount.
Events == emitCount - 1

\* The run has room for one more user event (a mouse-up that returns early
\* is taken only while it has, and does not use the room up).
Room == Len(text) + Len(rawSpans) + Events < MaxSize

\* adjustStart(span_id, dir)
adjustStart(span_id, dir) ==
    /\ setComponentSpans(adjustStartUpdater(componentSpans, span_id, dir))
    /\ lastOp' = Op("adjustStart", span_id, dir)
    /\ UNCHANGED <<Props, globalSpanCounter>>

\* adjustEnd(span_id, dir)
adjustEnd(span_id, dir) ==
    /\ setComponentSpans(adjustEndUpdater(componentSpans, span_id, dir))
    /\ lastOp' = Op("adjustEnd", span_id, dir)
    /\ UNCHANGED <<Props, globalSpanCounter>>

\* handleEditToggle(span_id)
handleEditToggle(span_id) ==
    /\ setComponentSpans(editToggleUpdater(componentSpans, span_id))
    /\ lastOp' = Op("toggleEdit", span_id, "")
    /\ UNCHANGED <<Props, globalSpanCounter>>

\* handleApproveEdit(span_id)
handleApproveEdit(span_id) ==
    /\ setComponentSpans(approveEditUpdater(componentSpans, span_id))
    /\ lastOp' = Op("approve", span_id, "")
    /\ UNCHANGED <<Props, globalSpanCounter>>

\* handleRemoveSpan(span_id)
handleRemoveSpan(span_id) ==
    /\ setComponentSpans(removed(componentSpans, span_id))
    /\ lastOp' = Op("remove", span_id, "")
    /\ UNCHANGED <<Props, globalSpanCounter>>

\* handleLabelChange(span_id, newLabel)
handleLabelChange(span_id, newLabel) ==
    /\ setComponentSpans(labelChangeUpdater(componentSpans, span_id, newLabel))
    /\ lastOp' = Op("setPendingLabel", span_id, "")
    /\ UNCHANGED <<Props, globalSpanCounter>>

\* handleMouseUp with a non-collapsed selection whose endpoints carry
\* data-ch-idx startIdx and endIdx (-1 for a missing attribute), past the
\* guards: the span is appended.
handleMouseUp(startIdx, endIdx) ==
    /\ lastOp' = [op |-> "create", known |-> FALSE, arg |-> ""]
    /\ accepts(startIdx, endIdx)
    /\ setComponentSpans(Append(componentSpans, newSpan(startIdx, endIdx)))
    /\ globalSpanCounter' = globalSpanCounter + 1
    /\ UNCHANGED Props

\* handleMouseUp returning early at one of its guards on the indices.
handleMouseUpRejected(startIdx, endIdx) ==
    /\ lastOp' = [op |-> "createRejected", known |-> FALSE,
                 arg |-> IF startIdx < 0 \/ endIdx < 0 THEN "negative" ELSE "bounds"]
    /\ ~accepts(startIdx, endIdx)
    /\ UNCHANGED <<Props, componentSpans, globalSpanCounter, emitted, emitCount>>

\* handleMouseUp returning before it reads any index: no selection, a
\* collapsed one, no range, or an endpoint without a parent element.
handleMouseUpNoSelection ==
    /\ lastOp' = [op |-> "createRejected", known |-> FALSE, arg |-> "collapsed"]
    /\ UNCHANGED <<Props, componentSpans, globalSpanCounter, emitted, emitCount>>

\* A click on an arrow of the start of a span: the arrows are displayed
\* for a span in edit mode only.
AdjustStart ==
    Room /\ \E id \in SpanIds, dir \in Directions :
                isEditing(id) /\ adjustStart(id, dir)

\* A click on an arrow of the end of a span in edit mode.
AdjustEnd ==
    Room /\ \E id \in SpanIds, dir \in Directions :
                isEditing(id) /\ adjustEnd(id, dir)

\* A click on the edit button, which a span shows while not in edit mode.
ToggleEdit ==
    Room /\ \E id \in SpanIds : ~isEditing(id) /\ handleEditToggle(id)

\* A click on the approve button, which a span shows while in edit mode.
Approve ==
    Room /\ \E id \in SpanIds : isEditing(id) /\ handleApproveEdit(id)

\* A click on the remove button, which a span shows while not in edit mode.
Remove ==
    Room /\ \E id \in SpanIds : ~isEditing(id) /\ handleRemoveSpan(id)

\* The select of the span with this id shows this label: value={tempLabel}.
selectValue(span_id, lbl) ==
    \E i \in 1..Len(componentSpans) :
        componentSpans[i].span_id = span_id /\ componentSpans[i].tempLabel = lbl

\* A choice in the select, which a span shows while in edit mode; its
\* options are the allowed labels, and onChange fires when an option other
\* than the one shown is chosen.
SetPendingLabel ==
    Room /\ \E id \in SpanIds, i \in 1..Len(allowedLabels) :
                /\ isEditing(id)
                /\ ~selectValue(id, allowedLabels[i])
                /\ handleLabelChange(id, allowedLabels[i])

\* A mouse-up with a selection between two rendered elements.
Create == Room /\ \E a \in ChIdx, b \in ChIdx : handleMouseUp(a, b)
CreateRejected ==
    Room /\ \E a \in ChIdx, b \in ChIdx : handleMouseUpRejected(a, b)

\* A mouse-up without a selection.
MouseUpNoSelection == Room /\ handleMouseUpNoSelection

Next ==
    \/ AdjustStart
    \/ AdjustEnd
    \/ ToggleEdit
    \/ Approve
    \/ Remove
    \/ SetPendingLabel
    \/ Create
    \/ CreateRejected
    \/ MouseUpNoSelection

Spec == Init /\ [][Next]_vars

\* ------------------------------------------ one adjustment, repeated
\* The component mounted on a text with one seed span, whose label is
\* allowed.
AdjustInit ==
    /\ text \in AdjustTexts
    /\ allowedLabels = <<"A">>
    /\ rawSpans \in {<<s>> : s \in {r \in SeedSpans(text) : r.label = "A"}}
    /\ componentSpans = toEditableSpans(rawSpans, InitialCounter)
    /\ globalSpanCounter = InitialCounter + Len(componentSpans)
    /\ emitted = plainSpans(componentSpans)
    /\ emitCount = 1
    /\ lastOp = [op |-> "mount", known |-> FALSE, arg |-> ""]

\* The user opens the edit mode of the span, which displays its arrows.
OpenEdit ==
    /\ lastOp.op = "mount"
    /\ \E id \in SpanIds : ~isEditing(id) /\ handleEditToggle(id)

\* Clicks on an arrow so far: every event after the one that opened the
\* edit mode.
Clicks == Events - 1

\* The user clicks one arrow of the span again and again: the click named
\* (name, dir) is the first one or repeats the last one, and the clicks so
\* far are at most as many as the text has characters.
Repeats(name, dir) ==
    /\ Clicks <= Len(text)
    /\ lastOp.op = "toggleEdit" \/ (lastOp.op = name /\ lastOp.arg = dir)

RepeatAdjustStart ==
    \E id \in SpanIds, dir \in Directions :
        Repeats("adjustStart", dir) /\ isEditing(id) /\ adjustStart(id, dir)

RepeatAdjustEnd ==
    \E id \in SpanIds, dir \in Directions :
        Repeats("adjustEnd", dir) /\ isEditing(id) /\ adjustEnd(id, dir)

AdjustNext == OpenEdit \/ RepeatAdjustStart \/ RepeatAdjustEnd

AdjustSpec == AdjustInit /\ [][AdjustNext]_vars

\* ------------------------------------- an editing session on a short text
\* The component mounted on a text of one or two characters with at most
\* one seed span, the host's list being ["A", "B"].
EditInit ==
    /\ text \in EditTexts
    /\ allowedLabels = <<"A", "B">>
    /\ rawSpans \in {<< >>} \cup {<<s>> : s \in SeedSpans(text)}
    /\ componentSpans = toEditableSpans(rawSpans, InitialCounter)
    /\ globalSpanCounter = InitialCounter + Len(componentSpans)
    /\ emitted = plainSpans(componentSpans)
    /\ emitCount = 1
    /\ lastOp = [op |-> "mount", known |-> FALSE, arg |-> ""]

\* The session has room for one more user event.
EditRoom == Events < MaxEvents

\* The user's gestures, as in Next, counted against the session.
EditAdjustStart ==
    EditRoom /\ \E id \in SpanIds, dir \in Directions :
                    isEditing(id) /\ adjustStart(id, dir)

EditAdjustEnd ==
    EditRoom /\ \E id \in SpanIds, dir \in Directions :
                    isEditing(id) /\ adjustEnd(id, dir)

EditToggle ==
    EditRoom /\ \E id \in SpanIds : ~isEditing(id) /\ handleEditToggle(id)

EditApprove ==
    EditRoom /\ \E id \in SpanIds : isEditing(id) /\ handleApproveEdit(id)

EditRemove ==
    EditRoom /\ \E id \in SpanIds : ~isEditing(id) /\ handleRemoveSpan(id)

EditSetPendingLabel ==
    EditRoom /\ \E id \in SpanIds, i \in 1..Len(allowedLabels) :
                    /\ isEditing(id)
                    /\ ~selectValue(id, allowedLabels[i])
                    /\ handleLabelChange(id, allowedLabels[i])

EditCreate == EditRoom /\ \E a \in ChIdx, b \in ChIdx : handleMouseUp(a, b)

EditCreateRejected ==
    EditRoom /\ \E a \in ChIdx, b \in ChIdx : handleMouseUpRejected(a, b)

EditMouseUpNoSelection == EditRoom /\ handleMouseUpNoSelection

EditNext ==
    \/ EditAdjustStart
    \/ EditAdjustEnd
    \/ EditToggle
    \/ EditApprove
    \/ EditRemove
    \/ EditSetPendingLabel
    \/ EditCreate
    \/ EditCreateRejected
    \/ EditMouseUpNoSelection

EditSpec == EditInit /\ [][EditNext]_vars

\* ===================================================================
\* Properties
\* ===================================================================
Store == 1..Len(componentSpans)

\* The {start, end, label} form of a store, label being the committed one.
Committed(spans) ==
    [i \in 1..Len(spans) |->
        [start_token |-> spans[i].start_token,
         end_token   |-> spans[i].end_token,
         label       |-> spans[i].label]]

\* The operations that change the store.
StoreOps ==
    {"create", "remove", "approve", "adjustStart", "adjustEnd",
     "toggleEdit", "setPendingLabel"}

\* C1 (offset invariant): every seed span satisfying
\* 0 <= start < end <= length(text), every span of the store satisfies
\* 0 <= start < end <= length(text) in every reachable state, so that
\* end - start >= 1 after any sequence of operations.
C1_OffsetInvariant ==
    (\A k \in 1..Len(rawSpans) :
        /\ 0 <= rawSpans[k].start_token
        /\ rawSpans[k].start_token < rawSpans[k].end_token
        /\ rawSpans[k].end_token <= Len(text))
    => \A i \in Store :
        /\ 0 <= componentSpans[i].start_token
        /\ componentSpans[i].start_token < componentSpans[i].end_token
        /\ componentSpans[i].end_token <= Len(text)
        /\ componentSpans[i].end_token - componentSpans[i].start_token >= 1

\* A span that adjustStart("right") has just narrowed to width 1 at the end
\* of a three-character text: the move was clamped to end - 1.
C1_Witness ==
    /\ lastOp.op = "adjustStart" /\ lastOp.arg = "right" /\ lastOp.known
    /\ Len(text) = 3
    /\ Len(rawSpans) = 0
    /\ \E i \in Store :
        /\ componentSpans[i].start_token = 2
        /\ componentSpans[i].end_token = 3

\* C2 (emission per mutation): every create, remove, approve, adjustStart
\* and adjustEnd (and every other call that sets the store) is followed by
\* exactly one emission, whose value is the store as that operation left it;
\* a step that is none of them emits nothing.
C2_EmissionPerMutation ==
    [][/\ lastOp'.op \in StoreOps =>
            /\ emitCount' = emitCount + 1
            /\ emitted' = Committed(componentSpans')
       /\ lastOp'.op \notin StoreOps =>
            /\ emitCount' = emitCount
            /\ emitted' = emitted]_vars

\* Three operations done, the last an adjustEnd that left the store as it
\* was: four emissions all the same.
C2_Witness ==
    /\ emitCount = 4
    /\ lastOp.op = "adjustEnd" /\ lastOp.known
    /\ Len(componentSpans) = 1
    /\ componentSpans[1].end_token = Len(text)
    /\ emitted = Committed(componentSpans)

\* C3 (emission content): the value the host holds is always the full span
\* list of the store, in store order, each span as {start, end, label} with
\* the committed label; a setPendingLabel or toggleEdit step leaves the
\* labels the host receives as they were.
C3_EmissionContent ==
    /\ [](/\ Len(emitted) = Len(componentSpans)
          /\ \A i \in Store :
                emitted[i] = [start_token |-> componentSpans[i].start_token,
                              end_token   |-> componentSpans[i].end_token,
                              label       |-> componentSpans[i].label])
    /\ [][lastOp'.op \in {"setPendingLabel", "toggleEdit"} =>
            /\ Len(emitted') = Len(emitted)
            /\ \A i \in 1..Len(emitted) : emitted'[i].label = emitted[i].label]_vars

\* After setPendingLabel a span's pending label differs from its committed
\* label, and the host holds the committed one.
C3_Witness ==
    /\ lastOp.op = "setPendingLabel" /\ lastOp.known
    /\ \E i \in Store :
        /\ componentSpans[i].editing
        /\ componentSpans[i].tempLabel # componentSpans[i].label
        /\ emitted[i].label = componentSpans[i].label

\* C4 (approve is the only path to a committed label): approve(id) sets the
\* addressed span's label to its pending label and its editing flag to
\* false; every other operation leaves the committed label of every span
\* that survives it unchanged; and toggling the edit mode of a span off,
\* whatever its pending label, leaves edit mode and the committed label of
\* every span as it was.
C4_ApproveOnlyCommits ==
    /\ [](\A i \in Store :
            componentSpans[i].editing =>
                LET off == editToggleUpdater(componentSpans,
                                             componentSpans[i].span_id)
                IN  /\ Len(off) = Len(componentSpans)
                    /\ off[i].editing = FALSE
                    /\ \A j \in Store : off[j].label = componentSpans[j].label)
    /\ [][/\ \A id \in SpanIds :
                handleApproveEdit(id) =>
                    /\ Len(componentSpans') = Len(componentSpans)
                    /\ \A i \in Store :
                        IF componentSpans[i].span_id = id
                        THEN /\ componentSpans'[i].label = componentSpans[i].tempLabel
                             /\ componentSpans'[i].editing = FALSE
                        ELSE componentSpans'[i] = componentSpans[i]
          /\ lastOp'.op # "approve" =>
                \A i \in Store : \A j \in 1..Len(componentSpans') :
                    componentSpans'[j].span_id = componentSpans[i].span_id
                        => componentSpans'[j].label = componentSpans[i].label]_vars

\* A span created with the first label "A" carries "B", which only the
\* approve of a pending "B" gives it; it was opened for editing again and
\* has the pending label "A": toggling its edit mode off leaves it "B".
C4_Witness ==
    /\ lastOp.op = "setPendingLabel" /\ lastOp.known
    /\ allowedLabels = <<"A", "B">>
    /\ Len(rawSpans) = 0 /\ Len(componentSpans) = 1
    /\ componentSpans[1].label = "B"
    /\ componentSpans[1].tempLabel = "A"
    /\ componentSpans[1].editing
    /\ LET off == editToggleUpdater(componentSpans, componentSpans[1].span_id)
       IN  off[1].label = "B" /\ ~off[1].editing

\* The labels of the host's list.
AllowedSet == {allowedLabels[k] : k \in 1..Len(allowedLabels)}

\* C5 as claimed (allowed-label invariant for every list, the empty one
\* included): the committed label of every span, and the pending label of
\* every editing span, is a member of allowedLabels.
C5_AllowedLabelAnyList ==
    \A i \in Store :
        /\ componentSpans[i].label \in AllowedSet
        /\ componentSpans[i].editing => componentSpans[i].tempLabel \in AllowedSet

\* C5 amended (allowed-label invariant): for every non-empty allowedLabels
\* the committed label of every span, and the pending label of every
\* editing span, is a member of allowedLabels; for the empty list both are
\* the fallback literal "MISC".
C5_AllowedLabelInvariant ==
    \A i \in Store :
        IF allowedLabels # << >>
        THEN /\ componentSpans[i].label \in AllowedSet
             /\ componentSpans[i].editing
                    => componentSpans[i].tempLabel \in AllowedSet
        ELSE /\ componentSpans[i].label = "MISC"
             /\ componentSpans[i].editing => componentSpans[i].tempLabel = "MISC"

\* The host's list is <<"A", "B">>, a seed span labelled "X" was dropped, one
\* labelled "A" was kept and is being edited with pending label "B".
C5_Witness ==
    /\ allowedLabels = <<"A", "B">>
    /\ \E k \in 1..Len(rawSpans) : rawSpans[k].label = "X"
    /\ \E k \in 1..Len(rawSpans) : rawSpans[k].label = "A"
    /\ \E i \in Store :
        /\ componentSpans[i].editing
        /\ componentSpans[i].label = "A"
        /\ componentSpans[i].tempLabel = "B"

\* Positions of the seed list whose label the host allows.
KeptSeeds == {k \in 1..Len(rawSpans) : rawSpans[k].label \in AllowedSet}

\* C6 (filtering on load): the seeded store holds exactly the seed spans
\* whose label is in allowedLabels, in their original relative order, with
\* start, end and label unchanged, editing = false and pendingLabel = label;
\* seeds whose labels are all outside allowedLabels give an empty store.
C6_FilteringOnLoad ==
    lastOp.op = "mount" =>
        /\ Len(componentSpans) = Cardinality(KeptSeeds)
        /\ \A k \in KeptSeeds :
            LET i == Cardinality({j \in KeptSeeds : j <= k})
            IN  /\ componentSpans[i].start_token = rawSpans[k].start_token
                /\ componentSpans[i].end_token = rawSpans[k].end_token
                /\ componentSpans[i].label = rawSpans[k].label
                /\ componentSpans[i].tempLabel = rawSpans[k].label
                /\ componentSpans[i].editing = FALSE
        /\ KeptSeeds = {} => componentSpans = << >>

\* Seeds labelled "B", "X", "A" under the list <<"A", "B">>: the store holds
\* the first and the third, in that order.
C6_Witness ==
    /\ lastOp.op = "mount"
    /\ allowedLabels = <<"A", "B">>
    /\ Len(rawSpans) = 3
    /\ rawSpans[1].label = "B" /\ rawSpans[2].label = "X" /\ rawSpans[3].label = "A"
    /\ rawSpans[1].end_token # rawSpans[3].end_token
    /\ Len(componentSpans) = 2
    /\ componentSpans[1].label = "B" /\ componentSpans[2].label = "A"

\* The label a new span is given: the first of the host's labels, or the
\* fallback literal when the host gave none.
FirstLabel == IF allowedLabels # << >> THEN allowedLabels[1] ELSE "MISC"

\* handleMouseUp ran with these two data-ch-idx values.
MouseUp(a, b) == handleMouseUp(a, b) \/ handleMouseUpRejected(a, b)

\* C7 (selection translation): a raw selection (a, b) with a >= 0, b >= 0
\* and max(a, b) + 1 <= length(text) appends exactly one span, with
\* start = min(a, b), end = max(a, b) + 1, label = pendingLabel = the first
\* allowed label (or the fallback literal) and editing = true, and leaves the
\* spans already in the store unchanged; (4, 8) translates to [4, 9).
C7_SelectionTranslation ==
    [][/\ lastOp'.op \in {"create", "createRejected"} =>
          \A a \in ChIdx, b \in ChIdx :
            (/\ a >= 0 /\ b >= 0
             /\ (IF a >= b THEN a ELSE b) + 1 <= Len(text)
             /\ MouseUp(a, b))
            => /\ Len(componentSpans') = Len(componentSpans) + 1
               /\ \A i \in Store : componentSpans'[i] = componentSpans[i]
               /\ LET new == componentSpans'[Len(componentSpans')]
                  IN  /\ new.start_token = (IF a <= b THEN a ELSE b)
                      /\ new.end_token = (IF a >= b THEN a ELSE b) + 1
                      /\ new.label = FirstLabel
                      /\ new.tempLabel = FirstLabel
                      /\ new.editing = TRUE
       /\ spanStartOf(4, 8) = 4
       /\ spanEndOf(4, 8) = 9]_vars

\* A selection of two or more characters was just translated, next to a
\* span that was in the store before.
C7_Witness ==
    /\ lastOp.op = "create"
    /\ Len(componentSpans) >= 2
    /\ LET new == componentSpans[Len(componentSpans)]
       IN  /\ new.end_token - new.start_token >= 2
           /\ new.editing
           /\ new.label = allowedLabels[1]

\* Index values around the text, those no rendered element carries
\* included.
AnyIdx == -1..(Len(text) + 1)

\* C8 (selection rejection): a raw selection with a missing or negative
\* index, or with max(a, b) + 1 > length(text), does not pass the guards of
\* the handler, and a mouse-up with such a selection creates no span: the
\* store and the id counter are as they were.
C8_SelectionRejection ==
    /\ [](\A a \in AnyIdx, b \in AnyIdx :
            (a < 0 \/ b < 0 \/ (IF a >= b THEN a ELSE b) + 1 > Len(text))
                => ~accepts(a, b))
    /\ [][(/\ lastOp'.op \in {"create", "createRejected"}
           /\ \E a \in ChIdx, b \in ChIdx :
               /\ \/ a < 0
                  \/ b < 0
                  \/ (IF a >= b THEN a ELSE b) + 1 > Len(text)
               /\ MouseUp(a, b))
          => /\ componentSpans' = componentSpans
             /\ globalSpanCounter' = globalSpanCounter]_vars

\* A selection with an endpoint in an element without data-ch-idx was just
\* rejected, the store holding a span and the text a plain character.
C8_Witness ==
    /\ lastOp.op = "createRejected" /\ lastOp.arg = "negative"
    /\ Len(componentSpans) >= 1
    /\ ChIdx # {-1}
    /\ globalSpanCounter = InitialCounter + 1

\* Ids of the spans of a store.
IdsOf(spans) == {spans[i].span_id : i \in 1..Len(spans)}

\* C9 (id uniqueness): no two spans of the store share an id (ids grow
\* along the store, seeded spans first), and no id is reused: every id in
\* the store is below the counter, the counter never goes back, and the id
\* of every span that enters the store is at least the counter, so above
\* every id handed out before, removed spans included.
C9_IdUniqueness ==
    /\ [](/\ \A i \in Store : \A j \in Store :
                i # j => componentSpans[i].span_id # componentSpans[j].span_id
          /\ \A i \in Store : \A j \in Store :
                i < j => componentSpans[i].span_id < componentSpans[j].span_id
          /\ \A i \in Store :
                /\ componentSpans[i].span_id >= InitialCounter
                /\ componentSpans[i].span_id < globalSpanCounter)
    /\ [][/\ globalSpanCounter' >= globalSpanCounter
          /\ \A id \in IdsOf(componentSpans') \ IdsOf(componentSpans) :
                /\ id >= globalSpanCounter
                /\ id < globalSpanCounter']_vars

\* A span was created after another was removed: its id is above the id of
\* the removed one, which no span has any more.
C9_Witness ==
    /\ lastOp.op = "create"
    /\ Len(componentSpans) >= 1
    /\ \E id \in InitialCounter..(globalSpanCounter - 1) :
        /\ id \notin IdsOf(componentSpans)
        /\ id < componentSpans[Len(componentSpans)].span_id

\* No two spans of the store share a character.
Disjoint ==
    \A i \in Store : \A j \in Store :
        i # j => \/ componentSpans[i].end_token <= componentSpans[j].start_token
                 \/ componentSpans[j].end_token <= componentSpans[i].start_token

Display == buildDisplayContent(componentSpans)

RECURSIVE Concat(_, _)
\* The characters of the first n segments, in order.
Concat(segs, n) == IF n = 0 THEN << >> ELSE Concat(segs, n - 1) \o segs[n].chars

\* C10 (display partition): for a pairwise-disjoint store, in any store
\* order, the segments of the display are in ascending offset order, cover
\* [0, length(text)) with no gap and no overlap, hold exactly one entity
\* segment [start, end) per span, and concatenated give the text back.
C10_DisplayPartition ==
    Disjoint =>
        LET segs == Display
            n == Len(segs)
        IN  /\ \A k \in 1..n : segs[k].start < segs[k].end
            /\ n = 0 <=> Len(text) = 0
            /\ n > 0 => segs[1].start = 0 /\ segs[n].end = Len(text)
            /\ \A k \in 1..(n - 1) : segs[k].end = segs[k + 1].start
            /\ \A i \in Store :
                Cardinality({k \in 1..n :
                    /\ segs[k].kind = "entity"
                    /\ segs[k].key = componentSpans[i].span_id
                    /\ segs[k].start = componentSpans[i].start_token
                    /\ segs[k].end = componentSpans[i].end_token}) = 1
            /\ Cardinality({k \in 1..n : segs[k].kind = "entity"})
                 = Len(componentSpans)
            /\ Concat(segs, n) = text

\* Two disjoint spans, the one created last lying before the other, with
\* plain text before, between or after them.
C10_Witness ==
    /\ lastOp.op = "create"
    /\ Disjoint
    /\ Len(componentSpans) = 2
    /\ componentSpans[1].start_token > componentSpans[2].start_token
    /\ \E k \in 1..Len(Display) : Display[k].kind = "plain"
    /\ Len(Display) >= 3

\* The operations that take a span id.
IdOps ==
    {"toggleEdit", "setPendingLabel", "approve", "adjustStart", "adjustEnd",
     "remove"}

\* Ids no span of the store has: those of removed spans and the one the
\* counter hands out next.
UnknownIds == (InitialCounter..globalSpanCounter) \ IdsOf(componentSpans)

\* C11 (unknown id is a no-op): for every store the program reaches and
\* every id no span of it has, the updaters of toggleEdit, setPendingLabel,
\* approve, adjustStart, adjustEnd and remove return the store as it is: the
\* same spans, field by field, in the same order.
C11_UnknownIdNoOp ==
    \A id \in UnknownIds :
        /\ editToggleUpdater(componentSpans, id) = componentSpans
        /\ approveEditUpdater(componentSpans, id) = componentSpans
        /\ removed(componentSpans, id) = componentSpans
        /\ \A d \in Directions :
            /\ adjustStartUpdater(componentSpans, id, d) = componentSpans
            /\ adjustEndUpdater(componentSpans, id, d) = componentSpans
        /\ \A k \in 1..Len(allowedLabels) :
            labelChangeUpdater(componentSpans, id, allowedLabels[k]) = componentSpans

\* A span was removed while another, being edited, stays: the id of the
\* removed one is in no span of the store.
C11_Witness ==
    /\ lastOp.op = "remove"
    /\ Len(componentSpans) >= 1
    /\ \E i \in Store : componentSpans[i].editing
    /\ \E id \in InitialCounter..(globalSpanCounter - 1) :
        id \notin IdsOf(componentSpans)

\* The spans a text admits: 0 <= start < end <= length(text).
ValidSpans ==
    {r \in [start_token : 0..Len(text), end_token : 0..Len(text)] :
        r.start_token < r.end_token}

\* The seed of a run that repeats one adjustment matches the span of the
\* store in every field the seed has.
SameAsSeed ==
    /\ Len(componentSpans) = 1
    /\ componentSpans[1].start_token = rawSpans[1].start_token
    /\ componentSpans[1].end_token = rawSpans[1].end_token
    /\ componentSpans[1].label = rawSpans[1].label

\* The last click, if any, was on this arrow.
Clicked(name, dir) == lastOp.op = name /\ lastOp.arg = dir

\* C12 (adjust at a limit): on every text, for every span, moveStartLeft
\* with start = 0 returns 0, moveStartRight with start >= length - 1 returns
\* start, moveEndLeft with end <= start + 1 returns end and moveEndRight with
\* end = length returns length; and a span seeded at such a limit is the
\* same after any number of clicks on the corresponding arrow.
C12_AdjustAtLimit ==
    /\ \A s \in ValidSpans :
        /\ s.start_token = 0 => moveStartLeft(s) = 0
        /\ s.start_token >= Len(text) - 1 => moveStartRight(s) = s.start_token
        /\ s.end_token <= s.start_token + 1 => moveEndLeft(s) = s.end_token
        /\ s.end_token = Len(text) => moveEndRight(s) = Len(text)
    /\ (Clicked("adjustStart", "left") /\ rawSpans[1].start_token = 0)
            => SameAsSeed
    /\ (Clicked("adjustStart", "right")
            /\ rawSpans[1].start_token >= Len(text) - 1) => SameAsSeed
    /\ (Clicked("adjustEnd", "left")
            /\ rawSpans[1].end_token <= rawSpans[1].start_token + 1)
            => SameAsSeed
    /\ (Clicked("adjustEnd", "right") /\ rawSpans[1].end_token = Len(text))
            => SameAsSeed

\* The left arrow of the start was clicked three times on a span that starts
\* at 0 and spans several words.
C12_Witness ==
    /\ Clicked("adjustStart", "left")
    /\ Clicks = 3
    /\ rawSpans[1].start_token = 0
    /\ rawSpans[1].end_token >= 3
    /\ componentSpans[1].start_token = 0

\* The character at offset k of the text is whitespace.
Ws(k) == text[k + 1] \in {" "}

\* Where a walk to the left from offset `from` stops when it skips
\* whitespace: the last offset at or before `from` that holds a
\* non-whitespace character, or `floor` if there is none above it.
LastWordChar(from, floor) ==
    LET words == {k \in (floor + 1)..from : ~Ws(k)}
    IN  IF words = {} THEN floor ELSE CHOOSE k \in words : \A m \in words : m <= k

\* The first offset, not below `floor`, of the non-whitespace run that ends
\* just before offset j.
WordStart(j, floor) ==
    LET runs == {k \in floor..j : \A m \in k..(j - 1) : ~Ws(m)}
    IN  CHOOSE k \in runs : \A m \in runs : k <= m

\* Stepping left from start - 1 over whitespace, then over the preceding
\* non-whitespace run.
RefStartLeft(s) == WordStart(LastWordChar(s.start_token - 1, 0), 0)

\* C13 (word-left move of start): on every text, for every span with
\* start > 0, moveStartLeft returns the offset r reached by stepping left
\* from start - 1 over whitespace and then over the preceding non-whitespace
\* run; 0 <= r < start, and r = 0 or the character at r - 1 is whitespace.
\* On "The quick fox" with the span [9, 13) it returns 4.
C13_WordLeftStart ==
    /\ \A s \in ValidSpans :
        s.start_token > 0 =>
            LET r == moveStartLeft(s)
            IN  /\ r = RefStartLeft(s)
                /\ 0 <= r /\ r < s.start_token
                /\ r = 0 \/ Ws(r - 1)
    /\ text = TheQuickFox =>
            moveStartLeft([start_token |-> 9, end_token |-> 13]) = 4

\* On "The quick fox" the left arrow of the start of "fox" was clicked once:
\* the span starts at "quick".
C13_Witness ==
    /\ text = TheQuickFox
    /\ Clicked("adjustStart", "left") /\ Clicks = 1
    /\ rawSpans[1].start_token = 9 /\ rawSpans[1].end_token = 13
    /\ componentSpans[1].start_token = 4 /\ componentSpans[1].end_token = 13

\* Where a walk to the right from offset `from` stops when it skips the
\* characters whose whitespace-ness is `ws`: the first offset at or after
\* `from` that holds a character of the other kind, or length(text).
SkipRight(from, ws) ==
    LET stops == {k \in from..Len(text) : k = Len(text) \/ Ws(k) # ws}
    IN  CHOOSE k \in stops : \A m \in stops : k <= m

\* Stepping right over the non-whitespace run at start, then over the
\* whitespace that follows, pulled back to end - 1 when that reaches end.
RefStartRight(s) ==
    LET i == SkipRight(SkipRight(s.start_token, FALSE), TRUE)
    IN  IF i >= s.end_token THEN s.end_token - 1 ELSE i

\* C14 (word-right move of start, with clamp): on every text, for every span
\* with start < length - 1, moveStartRight returns the offset reached by
\* stepping right over the non-whitespace run at start and then over the
\* following whitespace, or end - 1 if that offset is >= end; the result r
\* has start <= r <= end - 1. On "The quick fox" with the span [0, 3) it
\* returns 2.
C14_WordRightStart ==
    /\ \A s \in ValidSpans :
        s.start_token < Len(text) - 1 =>
            LET r == moveStartRight(s)
            IN  /\ r = RefStartRight(s)
                /\ s.start_token <= r /\ r <= s.end_token - 1
    /\ text = TheQuickFox =>
            moveStartRight([start_token |-> 0, end_token |-> 3]) = 2

\* On "The quick fox" the right arrow of the start of "The" was clicked
\* once: the next word starts at 4, past the end, so the span starts at 2.
C14_Witness ==
    /\ text = TheQuickFox
    /\ Clicked("adjustStart", "right") /\ Clicks = 1
    /\ rawSpans[1].start_token = 0 /\ rawSpans[1].end_token = 3
    /\ componentSpans[1].start_token = 2 /\ componentSpans[1].end_token = 3

\* The span with its editing flag flipped.
Flipped(s) == [s EXCEPT !.editing = ~s.editing]

\* C15 (frame of adjust): adjustStart(id, dir) changes nothing but the start
\* of the span with that id, and adjustEnd(id, dir) nothing but its end: the
\* other boundary, label, pending label, editing flag and id of that span,
\* every other span and the order of the store stay, and the boundary moves
\* to the same offset as it would with the editing flag flipped.
C15_AdjustFrame ==
    [][lastOp'.op \in {"adjustStart", "adjustEnd"} =>
        \A id \in SpanIds : \A d \in Directions :
            /\ adjustStart(id, d) =>
                /\ Len(componentSpans') = Len(componentSpans)
                /\ \A i \in Store :
                    /\ componentSpans'[i] =
                         [componentSpans[i] EXCEPT
                            !.start_token = componentSpans'[i].start_token]
                    /\ componentSpans[i].span_id # id =>
                         componentSpans'[i] = componentSpans[i]
                    /\ componentSpans[i].span_id = id =>
                         componentSpans'[i].start_token =
                           adjustedStart(Flipped(componentSpans[i]), d).start_token
            /\ adjustEnd(id, d) =>
                /\ Len(componentSpans') = Len(componentSpans)
                /\ \A i \in Store :
                    /\ componentSpans'[i] =
                         [componentSpans[i] EXCEPT
                            !.end_token = componentSpans'[i].end_token]
                    /\ componentSpans[i].span_id # id =>
                         componentSpans'[i] = componentSpans[i]
                    /\ componentSpans[i].span_id = id =>
                         componentSpans'[i].end_token =
                           adjustedEnd(Flipped(componentSpans[i]), d).end_token]_vars

\* The start of a span created on the second character, still in edit
\* mode, was moved left to 0, next to a seeded span that is not in edit mode
\* and is as it was seeded.
C15_Witness ==
    /\ lastOp.op = "adjustStart" /\ lastOp.known /\ lastOp.arg = "left"
    /\ Len(rawSpans) = 1 /\ Len(componentSpans) = 2
    /\ ~componentSpans[1].editing /\ componentSpans[2].editing
    /\ componentSpans[1].start_token = rawSpans[1].start_token
    /\ componentSpans[1].end_token = rawSpans[1].end_token
    /\ componentSpans[2].start_token = 0 /\ componentSpans[2].end_token = 2

\* C16 (toggle and the pending label): whenever toggleEdit(id) takes a
\* span from editing = false to editing = true, the pending label of the
\* span equals its committed label right after, whatever was applied to the
\* span before; and the span handleEditToggle returns for a span in edit
\* mode has editing = false and its pending label reset to its label.
C16_ToggleResetsPending ==
    /\ [](\A i \in Store :
            componentSpans[i].editing =>
                LET t == editToggleUpdater(componentSpans,
                                           componentSpans[i].span_id)[i]
                IN  /\ t.editing = FALSE
                    /\ t.tempLabel = componentSpans[i].label
                    /\ t.label = componentSpans[i].label)
    /\ [][lastOp'.op = "toggleEdit" =>
            \A id \in SpanIds :
                handleEditToggle(id) =>
                    \A i \in Store :
                        (componentSpans[i].span_id = id
                            /\ ~componentSpans[i].editing) =>
                            /\ componentSpans'[i].editing
                            /\ componentSpans'[i].tempLabel = componentSpans'[i].label
                            /\ componentSpans'[i].label = componentSpans[i].label]_vars

\* A span created with label "A" was given the pending label "B", approved,
\* and opened for editing again: its pending label is "B", its label.
C16_Witness ==
    /\ lastOp.op = "toggleEdit"
    /\ allowedLabels = <<"A", "B">>
    /\ Len(rawSpans) = 0 /\ Len(componentSpans) = 1
    /\ componentSpans[1].editing
    /\ componentSpans[1].label = "B"
    /\ componentSpans[1].tempLabel = "B"

\* Stepping left from end - 1 over whitespace, then over the preceding word
\* to its first character, down to offset 0 if need be, then pulled up to
\* start + 1 when the result is <= start.
RefEndLeft(s) ==
    LET i == WordStart(LastWordChar(s.end_token - 1, 0), 0)
    IN  IF i <= s.start_token THEN s.start_token + 1 ELSE i

\* C17 (word-left move of end): on every text, for every span with
\* end > start + 1, moveEndLeft, whose walk stops at start, returns the same
\* offset as the reference whose walk goes down to 0 and is then clamped to
\* start + 1; the result r has start + 1 <= r < end.
C17_WordLeftEnd ==
    \A s \in ValidSpans :
        s.end_token > s.start_token + 1 =>
            LET r == moveEndLeft(s)
            IN  /\ r = RefEndLeft(s)
                /\ s.start_token + 1 <= r /\ r < s.end_token

\* The left arrow of the end was clicked once on a span that covers the
\* last three characters of a four-letter word: the reference walks to 0,
\* the code stops at start = 1, and the end lands on start + 1.
C17_Witness ==
    /\ Clicked("adjustEnd", "left") /\ Clicks = 1
    /\ Len(text) = 4 /\ \A k \in 0..3 : ~Ws(k)
    /\ rawSpans[1].start_token = 1 /\ rawSpans[1].end_token = 4
    /\ componentSpans[1].start_token = 1 /\ componentSpans[1].end_token = 2

\* Stepping right from end over whitespace, then over the non-whitespace
\* run that follows.
RefEndRight(s) == SkipRight(SkipRight(s.end_token, TRUE), FALSE)

\* C18 (word-right move of end): on every text, for every span with
\* end < length(text), moveEndRight returns the offset r reached by stepping
\* right from end over whitespace and then over the following non-whitespace
\* run; end < r <= length(text), and r = length(text) or the character at r
\* is whitespace.
C18_WordRightEnd ==
    \A s \in ValidSpans :
        s.end_token < Len(text) =>
            LET r == moveEndRight(s)
            IN  /\ r = RefEndRight(s)
                /\ s.end_token < r /\ r <= Len(text)
                /\ r = Len(text) \/ Ws(r)

\* On "The quick fox" the right arrow of the end of "The" was clicked once:
\* the span ends just past "quick".
C18_Witness ==
    /\ text = TheQuickFox
    /\ Clicked("adjustEnd", "right") /\ Clicks = 1
    /\ rawSpans[1].start_token = 0 /\ rawSpans[1].end_token = 3
    /\ componentSpans[1].start_token = 0 /\ componentSpans[1].end_token = 9

\* Offset k lies in no span of the store: its character is rendered as
\* plain text.
Outside(k) ==
    \A i \in Store :
        ~(componentSpans[i].start_token <= k /\ k < componentSpans[i].end_token)

\* The step is a create whose selection has both endpoints outside every
\* span.
CreateBetweenPlainEnds ==
    /\ lastOp'.op = "create"
    /\ \E a \in ChIdx : \E b \in ChIdx :
        /\ a >= 0 /\ b >= 0
        /\ Outside(a) /\ Outside(b)
        /\ handleMouseUp(a, b)

\* The step is a create whose selection holds no character of any span.
CreateOverPlainText ==
    /\ lastOp'.op = "create"
    /\ \E a \in ChIdx : \E b \in ChIdx :
        /\ a >= 0 /\ b >= 0
        /\ \A k \in 0..(Len(text) - 1) :
              (a <= k /\ k <= b) \/ (b <= k /\ k <= a) => Outside(k)
        /\ handleMouseUp(a, b)

\* C19 as claimed (disjointness is preserved): from a pairwise-disjoint
\* store, a create whose two endpoints are plain-text characters outside
\* every span, adjustStart, adjustEnd, a label edit or remove leaves the
\* spans pairwise disjoint.
C19_DisjointnessPreserved ==
    [][(/\ Disjoint
        /\ \/ lastOp'.op \in IdOps
           \/ CreateBetweenPlainEnds) => Disjoint']_vars

\* C19 (disjointness is preserved by the steps that grow no span over a
\* neighbour): from a pairwise-disjoint store, a create whose selection
\* holds no character of any span, adjustStart right, adjustEnd left, a
\* label edit or remove leaves the spans pairwise disjoint.
C19_DisjointnessOfInwardSteps ==
    [][(/\ Disjoint
        /\ \/ lastOp'.op \in {"toggleEdit", "setPendingLabel", "approve", "remove"}
           \/ lastOp'.op = "adjustStart" /\ lastOp'.arg = "right"
           \/ lastOp'.op = "adjustEnd" /\ lastOp'.arg = "left"
           \/ CreateOverPlainText) => Disjoint']_vars

\* A span was created over plain text after a seeded span, with plain text
\* between the two.
C19_Witness ==
    /\ lastOp.op = "create"
    /\ Len(rawSpans) = 1 /\ Len(componentSpans) = 2
    /\ componentSpans[1].end_token < componentSpans[2].start_token
    /\ Disjoint

\* C20 (repeated adjustment converges): on every text, for every span, an
\* adjust moves its boundary only in the direction asked for, and moves it
\* unless the span is at the fixed point of that direction: start = 0 for
\* start-left, end = length(text) for end-right, start = end - 1 for
\* start-right and for end-left; and after length(text) clicks on one arrow
\* of a span, the span is at that fixed point.
C20_AdjustConverges ==
    /\ \A s \in ValidSpans :
        LET sl == adjustedStart(s, "left").start_token
            sr == adjustedStart(s, "right").start_token
            el == adjustedEnd(s, "left").end_token
            er == adjustedEnd(s, "right").end_token
        IN  /\ sl <= s.start_token
            /\ sl = s.start_token <=> s.start_token = 0
            /\ sr >= s.start_token
            /\ sr = s.start_token <=> s.start_token = s.end_token - 1
            /\ el <= s.end_token
            /\ el = s.end_token <=> s.start_token = s.end_token - 1
            /\ er >= s.end_token
            /\ er = s.end_token <=> s.end_token = Len(text)
    /\ Clicks >= Len(text) =>
        /\ Clicked("adjustStart", "left") => componentSpans[1].start_token = 0
        /\ Clicked("adjustStart", "right") =>
             componentSpans[1].start_token = componentSpans[1].end_token - 1
        /\ Clicked("adjustEnd", "left") =>
             componentSpans[1].start_token = componentSpans[1].end_token - 1
        /\ Clicked("adjustEnd", "right") =>
             componentSpans[1].end_token = Len(text)

\* On "The quick fox" the right arrow of the start of a span over the whole
\* text was clicked three times, by way of 4 and 10: the span is the last
\* character.
C20_Witness ==
    /\ text = TheQuickFox
    /\ Clicked("adjustStart", "right") /\ Clicks = 3
    /\ rawSpans[1].start_token = 0 /\ rawSpans[1].end_token = 13
    /\ componentSpans[1].start_token = 12 /\ componentSpans[1].end_token = 13

====
